---- MODULE Spec2Model ----
(***************************************************************************)
(* State-machine model of the RAG-based PDF question answering tool:       *)
(*   - PDFRAGSystem (src/src/rag/rag_system.py): process_pdf, query,        *)
(*     clear_history, over vector_store / rag_chain / chat_history;         *)
(*   - HuggingFaceEmbeddingsWrapper (src/src/rag/embeddings.py): the input  *)
(*     guards of embed_documents / embed_query;                             *)
(*   - PDFQuestionAnsweringApp (src/src/app/app.py): one Streamlit script   *)
(*     run (render -> render_sidebar -> welcome screen / chat interface)    *)
(*     over st.session_state, the uploader widget and the temporary files.  *)
(*                                                                         *)
(* Two specifications share the state:                                     *)
(*   Spec    : a caller drives the PDFRAGSystem interface directly;         *)
(*   AppSpec : a user drives the Streamlit application.                     *)
(* The external services (PDF loader, splitter, embedding model, Chroma,   *)
(* the Groq LLM) are black boxes: each call either returns or raises, and   *)
(* which one happens is an input of the action.                             *)
(***************************************************************************)
EXTENDS Naturals, Sequences, FiniteSets

VARIABLES
    vector_store,   \* PDFRAGSystem.vector_store : None or a Chroma store
    rag_chain,      \* PDFRAGSystem.rag_chain    : None or a retrieval chain
    chat_history,   \* PDFRAGSystem.chat_history : sequence of messages
    tmp_dirs,       \* number of index directories made by tempfile.mkdtemp that exist
    tmp_files,      \* number of temporary PDF files (NamedTemporaryFile) that exist
    messages,       \* st.session_state.messages
    pdf_processed,  \* st.session_state.pdf_processed
    pdf_name,       \* st.session_state.pdf_name
    pdf_hash,       \* st.session_state.pdf_hash
    uploader,       \* value of the st.file_uploader widget "pdf_uploader"
    clear_shown,    \* the "Clear Chat History" button is on the page
    chat_shown,     \* the chat input is on the page
    rerun_pending,  \* st.rerun() stopped the script; the next run is scheduled
    ncalls,         \* number of interface calls / script runs made so far
    last            \* the last interface call: its inputs and what it returned

vars == <<vector_store, rag_chain, chat_history, tmp_dirs, tmp_files, messages,
          pdf_processed, pdf_name, pdf_hash, uploader, clear_shown, chat_shown,
          rerun_pending, ncalls, last>>

ragVars == <<vector_store, rag_chain, chat_history, tmp_dirs>>

appVars == <<tmp_files, messages, pdf_processed, pdf_name, pdf_hash, uploader,
             clear_shown, chat_shown, rerun_pending>>

-----------------------------------------------------------------------------
(* Bounds of the model.                                                    *)

\* Calls of the PDFRAGSystem interface in one behaviour of Spec.
MaxCalls == 4

\* Script runs in one behaviour of AppSpec.
MaxRuns == 5

\* Distinct documents that can be ingested.
NumDocs == 3

-----------------------------------------------------------------------------
(* Values.                                                                 *)

\* Python's None.
None == [none |-> TRUE]

\* The documents, told apart by their content.  Document 1 has no text.
Docs == 1..NumDocs

NoDoc == 0

\* text_splitter.split_documents(loader.load()): the number of chunks of a
\* document; the empty document yields none, a longer one yields more.
split_documents(doc) == doc - 1

\* File name extensions of the pdf_path handed to process_pdf.
Extensions == {"pdf", "txt"}

\* The stage of process_pdf at which an external collaborator raises.
IngestFaults == {"none", "load", "split", "embed", "chain"}

\* The stage of rag_chain.invoke at which an external collaborator raises.
QueryFaults == {"none", "reformulate", "retrieve", "compose"}

\* Arguments of query: strings (possibly empty) and one non-string value.
Str(s) == [isstr |-> TRUE, text |-> s]

NonStr == [isstr |-> FALSE, text |-> "None"]

Questions == {Str("q1"), Str("q2"), Str(""), NonStr}

\* Texts the answer composer can return.
Answers == {"a1", "Out of context"}

HumanMessage(content) == [role |-> "human", content |-> content]

AIMessage(content) == [role |-> "ai", content |-> content]

-----------------------------------------------------------------------------
(* HuggingFaceEmbeddingsWrapper (src/src/rag/embeddings.py).                *)

\* Faulty variant of embed_documents_raises: the guard against an empty
\* list is missing.
embed_documents_accepts_empty(ntexts) == FALSE

\* embed_documents raises ValueError on an empty list of texts.
embed_documents_raises(ntexts) == ntexts = 0

\* embed_query raises ValueError on an empty or non-string text.
embed_query_raises(q) == ~q.isstr \/ q.text = ""

-----------------------------------------------------------------------------
(* PDFRAGSystem (src/src/rag/rag_system.py).                                *)

\* What process_pdf leaves behind and the kind of message it returns.
IngestResult(vs, chain, dirs, kind) ==
    [vector_store |-> vs, rag_chain |-> chain, tmp_dirs |-> dirs, kind |-> kind]

\* Chroma.from_documents(chunks, embeddings, persist_directory): embeds every
\* chunk through embed_documents, then returns the store; raises when the
\* embedding call raises.
Chroma_from_documents_raises(chunks, fault) ==
    embed_documents_raises(chunks) \/ fault = "embed"

Chroma_from_documents(doc, chunks, dir) ==
    [doc |-> doc, n |-> chunks, dir |-> dir]

\* _setup_rag_chain(retriever): installs the history-aware retrieval chain
\* over the retriever of the given store; any failure is re-raised as
\* RuntimeError, leaving rag_chain as it was.
setup_rag_chain_raises(fault) == fault = "chain"

setup_rag_chain(store) == [store |-> store]

\* The body of process_pdf's try block; "Exception" is an exception raised
\* inside it, with the assignments made before it kept.
process_pdf_try(vs, chain, dirs, ext, doc, fault) ==
    IF ext # "pdf" THEN IngestResult(vs, chain, dirs, "InvalidFormat")
    ELSE IF fault = "load" THEN IngestResult(vs, chain, dirs, "Exception")
    ELSE IF fault = "split" THEN IngestResult(vs, chain, dirs, "Exception")
    ELSE LET chunks == split_documents(doc)
             temp_dir == dirs + 1
         IN
         IF Chroma_from_documents_raises(chunks, fault)
         THEN IngestResult(vs, chain, temp_dir, "Exception")
         ELSE LET store == Chroma_from_documents(doc, chunks, temp_dir) IN
              IF setup_rag_chain_raises(fault)
              THEN IngestResult(store, chain, temp_dir, "Exception")
              ELSE IngestResult(store, setup_rag_chain(store), temp_dir, "Success")

\* Faulty variant of process_pdf: the previous index and chain are torn
\* down before the rebuild starts.
process_pdf_teardown(vs, chain, dirs, ext, doc, fault) ==
    LET r == process_pdf_try(None, None, dirs, ext, doc, fault) IN
    IF r.kind = "Exception" THEN [r EXCEPT !.kind = "Error"] ELSE r

\* process_pdf: the try body, with every exception turned into an error
\* message that is returned.
process_pdf(vs, chain, dirs, ext, doc, fault) ==
    LET r == process_pdf_try(vs, chain, dirs, ext, doc, fault) IN
    IF r.kind = "Exception" THEN [r EXCEPT !.kind = "Error"] ELSE r

QueryResult(hist, kind, answer, invoked, passed) ==
    [chat_history |-> hist, kind |-> kind, answer |-> answer,
     invoked |-> invoked, passed |-> passed]

\* rag_chain.invoke({"input": question, "chat_history": history}) raises:
\* the history-aware retriever calls the LLM to reformulate only when the
\* history is not empty; then the retriever embeds the query (the raw
\* question when nothing was reformulated) and searches;
\* then the LLM composes the answer.  Invoking None raises as well.
rag_chain_invoke_raises(chain, hist, q, fault) ==
    \/ chain = None
    \/ (hist = <<>> /\ embed_query_raises(q))
    \/ (fault = "reformulate" /\ hist # <<>>)
    \/ fault = "retrieve"
    \/ fault = "compose"

\* Faulty variant of append_turns: the two messages are appended in the
\* wrong order.
append_turns_swapped(hist, question, answer) ==
    Append(Append(hist, AIMessage(answer)), HumanMessage(question))

\* The two appends that follow a successful invoke.
append_turns(hist, question, answer) ==
    Append(Append(hist, HumanMessage(question)), AIMessage(answer))

\* Faulty variant of query_try: the question is appended to the history
\* before the chain is invoked, so a failing invoke leaves it there.
query_try_append_first(chain, hist, q, fault, answer) ==
    IF q.text = "" \/ ~q.isstr
    THEN QueryResult(hist, "Invalid", "", FALSE, <<>>)
    ELSE IF rag_chain_invoke_raises(chain, hist, q, fault)
    THEN QueryResult(Append(hist, HumanMessage(q.text)), "Exception", "", TRUE, hist)
    ELSE QueryResult(Append(Append(hist, HumanMessage(q.text)), AIMessage(answer)),
                     "Answer", answer, TRUE, hist)

\* The body of query's try block.
query_try(chain, hist, q, fault, answer) ==
    IF q.text = "" \/ ~q.isstr
    THEN QueryResult(hist, "Invalid", "", FALSE, <<>>)
    ELSE IF rag_chain_invoke_raises(chain, hist, q, fault)
    THEN QueryResult(hist, "Exception", "", TRUE, hist)
    ELSE QueryResult(append_turns(hist, q.text, answer), "Answer", answer, TRUE, hist)

\* Faulty variant of query_not_ready: the guard is missing.
query_not_ready_never(chain) == FALSE

\* The guard in front of query's try block.
query_not_ready(chain) == chain = None

\* query: not-ready guard, then the try body with every exception turned
\* into an error message that is returned.
query(chain, hist, q, fault, answer) ==
    IF query_not_ready(chain)
    THEN QueryResult(hist, "NotReady", "", FALSE, <<>>)
    ELSE LET r == query_try(chain, hist, q, fault, answer) IN
         IF r.kind = "Exception" THEN [r EXCEPT !.kind = "Error"] ELSE r

\* clear_history: the new value of chat_history.
clear_history(hist) == <<>>

-----------------------------------------------------------------------------
(* The record of the last call.                                            *)

Call(op, ingest, reply, ext, doc, ifault, question, qfault, answer, invoked, passed) ==
    [op |-> op, ingest |-> ingest, reply |-> reply, ext |-> ext, doc |-> doc,
     ifault |-> ifault, question |-> question, qfault |-> qfault,
     answer |-> answer, invoked |-> invoked, passed |-> passed]

NoCall == Call("init", "none", "none", "", NoDoc, "none", NonStr, "none", "", FALSE, <<>>)

-----------------------------------------------------------------------------
(* Initial state: PDFRAGSystem.__init__ and initialize_session_state.       *)

Init ==
    /\ vector_store = None
    /\ rag_chain = None
    /\ chat_history = <<>>
    /\ tmp_dirs = 0
    /\ tmp_files = 0
    /\ messages = <<>>
    /\ pdf_processed = FALSE
    /\ pdf_name = ""
    /\ pdf_hash = None
    /\ uploader = None
    /\ clear_shown = FALSE
    /\ chat_shown = FALSE
    /\ rerun_pending = FALSE
    /\ ncalls = 0
    /\ last = NoCall

-----------------------------------------------------------------------------
(* Spec: a caller of the PDFRAGSystem interface.                            *)

ProcessPdf ==
    /\ ncalls < MaxCalls
    /\ \E ext \in Extensions, doc \in Docs, fault \in IngestFaults :
         LET r == process_pdf(vector_store, rag_chain, tmp_dirs, ext, doc, fault) IN
         /\ vector_store' = r.vector_store
         /\ rag_chain' = r.rag_chain
         /\ tmp_dirs' = r.tmp_dirs
         /\ last' = Call("process_pdf", r.kind, "none", ext, doc, fault,
                         NonStr, "none", "", FALSE, <<>>)
    /\ ncalls' = ncalls + 1
    /\ UNCHANGED <<chat_history, appVars>>

Query ==
    /\ ncalls < MaxCalls
    /\ \E q \in Questions, fault \in QueryFaults, answer \in Answers :
         LET r == query(rag_chain, chat_history, q, fault, answer) IN
         /\ chat_history' = r.chat_history
         /\ last' = Call("query", "none", r.kind, "", NoDoc, "none",
                         q, fault, r.answer, r.invoked, r.passed)
    /\ ncalls' = ncalls + 1
    /\ UNCHANGED <<vector_store, rag_chain, tmp_dirs, appVars>>

ClearHistory ==
    /\ ncalls < MaxCalls
    /\ chat_history' = clear_history(chat_history)
    /\ last' = [NoCall EXCEPT !.op = "clear_history"]
    /\ ncalls' = ncalls + 1
    /\ UNCHANGED <<vector_store, rag_chain, tmp_dirs, appVars>>

Next == ProcessPdf \/ Query \/ ClearHistory

Spec == Init /\ [][Next]_vars

-----------------------------------------------------------------------------
(* PDFQuestionAnsweringApp (src/src/app/app.py).                            *)

\* The upload size limit in bytes, 10 * 1024 * 1024.
MaxUploadBytes == 10485760

\* Files the user can put into the uploader: every document in a file of
\* the largest accepted length, and one file that is a byte longer.
Files ==
    [doc : Docs, size : {MaxUploadBytes}]
        \cup {[doc |-> NumDocs, size |-> MaxUploadBytes + 1]}

\* What the user can type into the chat input (a blank one included).
Prompts == {"q1", " "}

NoPrompt == ""

\* len(file_content) > 10 * 1024 * 1024
exceeds_limit(file) == file.size > MaxUploadBytes

\* hashlib.md5(file_content).hexdigest(): one digest per content.
md5(file) == [md5 |-> <<file.doc, file.size>>]

\* uploaded_file.name
file_name(file) == [name |-> file.doc]

\* Faulty variant of is_success: every result of process_pdf is taken for a
\* success.
is_success_any(kind) == kind # "none"

\* "Successfully processed" in result
is_success(kind) == kind = "Success"

\* not prompt.strip()
is_blank(prompt) == prompt = " "

\* The uploaded file is processed in this run.
needs_processing(up, hash) ==
    up # None /\ ~exceeds_limit(up) /\ md5(up) # hash

\* render_sidebar, the upload part: what it leaves behind.  `returned` is
\* the early return on an oversized file, `stopped` is st.rerun() stopping
\* the script.  rerun tells whether st.rerun() stops the script (it raises
\* the script-control exception) or fails with an Exception that is caught.
upload_section(up, ifault, rerun) ==
    IF up # None /\ exceeds_limit(up)
    THEN [ingest |-> IngestResult(vector_store, rag_chain, tmp_dirs, "none"),
          doc |-> NoDoc, tmp_files |-> tmp_files,
          pdf_processed |-> pdf_processed, pdf_name |-> pdf_name,
          pdf_hash |-> pdf_hash, returned |-> TRUE, stopped |-> FALSE]
    ELSE IF ~needs_processing(up, pdf_hash)
    THEN [ingest |-> IngestResult(vector_store, rag_chain, tmp_dirs, "none"),
          doc |-> NoDoc, tmp_files |-> tmp_files,
          pdf_processed |-> pdf_processed, pdf_name |-> pdf_name,
          pdf_hash |-> pdf_hash, returned |-> FALSE, stopped |-> FALSE]
    ELSE LET r == process_pdf(vector_store, rag_chain, tmp_dirs, "pdf", up.doc, ifault)
             written == tmp_files + 1
         IN
         IF is_success(r.kind)
         THEN [ingest |-> r, doc |-> up.doc,
               \* os.unlink is reached only when the script was not stopped
               tmp_files |-> IF rerun THEN written ELSE written - 1,
               pdf_processed |-> TRUE, pdf_name |-> file_name(up),
               pdf_hash |-> md5(up), returned |-> FALSE, stopped |-> rerun]
         ELSE [ingest |-> r, doc |-> up.doc, tmp_files |-> written - 1,
               pdf_processed |-> pdf_processed, pdf_name |-> pdf_name,
               pdf_hash |-> pdf_hash, returned |-> FALSE, stopped |-> FALSE]

\* render_sidebar, the Clear button part, after the upload part left `u`.
clear_section(u, click, rerun) ==
    LET button == ~u.returned /\ ~u.stopped /\ u.pdf_processed IN
    IF button /\ click
    THEN [chat_history |-> clear_history(chat_history), messages |-> <<>>,
          pdf_processed |-> FALSE, pdf_name |-> "", pdf_hash |-> None,
          button |-> ~rerun, clicked |-> TRUE, stopped |-> rerun]
    ELSE [chat_history |-> chat_history, messages |-> messages,
          pdf_processed |-> u.pdf_processed, pdf_name |-> u.pdf_name,
          pdf_hash |-> u.pdf_hash, button |-> button, clicked |-> FALSE,
          stopped |-> u.stopped]

\* The text shown for what query returned.
response(a) == IF a.kind = "Answer" THEN a.answer ELSE a.kind

\* render(), after the sidebar left `u` and `c`: the welcome screen or
\* render_chat_interface with the chat input returning `prompt`.
chat_section(u, c, prompt, qfault, answer) ==
    LET chat == ~c.stopped /\ c.pdf_processed IN
    IF chat /\ prompt # NoPrompt /\ ~is_blank(prompt)
    THEN LET a == query(u.ingest.rag_chain, c.chat_history, Str(prompt), qfault, answer) IN
         [reply |-> a, chat |-> chat, question |-> Str(prompt), qfault |-> qfault,
          messages |-> Append(Append(c.messages,
                                     [role |-> "user", content |-> prompt]),
                              [role |-> "assistant", content |-> response(a)])]
    ELSE [reply |-> QueryResult(c.chat_history, "none", "", FALSE, <<>>),
          chat |-> chat, question |-> NonStr, qfault |-> "none",
          messages |-> c.messages]

\* One run of the script: render() with the uploader holding `up`, the Clear
\* button reported as clicked iff `click`, the chat input returning `prompt`.
\* ifault / qfault / answer are what the external services do in this run,
\* rerun1 / rerun2 what the two st.rerun() calls do.
ScriptRun(up, click, prompt, ifault, qfault, answer, rerun1, rerun2) ==
    \E u \in {upload_section(up, ifault, rerun1)} :
    \E c \in {clear_section(u, click, rerun2)} :
    \E t \in {chat_section(u, c, prompt, qfault, answer)} :
        /\ vector_store' = u.ingest.vector_store
        /\ rag_chain' = u.ingest.rag_chain
        /\ tmp_dirs' = u.ingest.tmp_dirs
        /\ tmp_files' = u.tmp_files
        /\ chat_history' = t.reply.chat_history
        /\ messages' = t.messages
        /\ pdf_processed' = c.pdf_processed
        /\ pdf_name' = c.pdf_name
        /\ pdf_hash' = c.pdf_hash
        /\ uploader' = up
        /\ clear_shown' = c.button
        /\ chat_shown' = t.chat
        /\ rerun_pending' = c.stopped
        /\ ncalls' = ncalls + 1
        /\ last' = Call(IF c.clicked THEN "clear" ELSE "run", u.ingest.kind,
                        t.reply.kind, "pdf", u.doc,
                        IF u.doc # NoDoc THEN ifault ELSE "none",
                        t.question, t.qfault, t.reply.answer,
                        t.reply.invoked, t.reply.passed)

\* A service that is not called in a run has no outcome to choose.
Unused(called, choice, default) == called \/ choice = default

\* The user selects a file in the uploader.
UserUpload ==
    /\ ncalls < MaxRuns
    /\ ~rerun_pending
    /\ \E f \in Files, ifault \in IngestFaults, rerun1 \in BOOLEAN :
         /\ f # uploader
         /\ Unused(needs_processing(f, pdf_hash), ifault, "none")
         /\ Unused(needs_processing(f, pdf_hash) /\ ifault = "none", rerun1, TRUE)
         /\ ScriptRun(f, FALSE, NoPrompt, ifault, "none", "a1", rerun1, TRUE)

\* The user removes the file from the uploader.
UserRemove ==
    /\ ncalls < MaxRuns
    /\ ~rerun_pending
    /\ uploader # None
    /\ ScriptRun(None, FALSE, NoPrompt, "none", "none", "a1", TRUE, TRUE)

\* The user clicks "Clear Chat History".
UserClear ==
    /\ ncalls < MaxRuns
    /\ ~rerun_pending
    /\ clear_shown
    /\ \E ifault \in IngestFaults, rerun1 \in BOOLEAN, rerun2 \in BOOLEAN :
         /\ Unused(needs_processing(uploader, pdf_hash), ifault, "none")
         /\ Unused(needs_processing(uploader, pdf_hash) /\ ifault = "none", rerun1, TRUE)
         /\ ScriptRun(uploader, TRUE, NoPrompt, ifault, "none", "a1", rerun1, rerun2)

\* The user submits a prompt in the chat input.
UserAsk ==
    /\ ncalls < MaxRuns
    /\ ~rerun_pending
    /\ chat_shown
    /\ \E p \in Prompts, ifault \in IngestFaults, qfault \in QueryFaults,
          answer \in Answers, rerun1 \in BOOLEAN :
         /\ Unused(needs_processing(uploader, pdf_hash), ifault, "none")
         /\ Unused(needs_processing(uploader, pdf_hash) /\ ifault = "none", rerun1, TRUE)
         /\ Unused(~is_blank(p), qfault, "none")
         /\ Unused(~is_blank(p) /\ qfault = "none", answer, "a1")
         /\ ScriptRun(uploader, FALSE, p, ifault, qfault, answer, rerun1, TRUE)

\* The run scheduled by st.rerun().
Rerun ==
    /\ ncalls < MaxRuns
    /\ rerun_pending
    /\ \E ifault \in IngestFaults, rerun1 \in BOOLEAN :
         /\ Unused(needs_processing(uploader, pdf_hash), ifault, "none")
         /\ Unused(needs_processing(uploader, pdf_hash) /\ ifault = "none", rerun1, TRUE)
         /\ ScriptRun(uploader, FALSE, NoPrompt, ifault, "none", "a1", rerun1, TRUE)

AppNext == UserUpload \/ UserRemove \/ UserClear \/ UserAsk \/ Rerun

AppSpec == Init /\ [][AppNext]_vars

-----------------------------------------------------------------------------
(* Properties.                                                             *)

\* The step just taken is a call of `op` (Spec) or a script run (AppSpec).
IsCall(op) == ncalls' = ncalls + 1 /\ last'.op = op

\* Every ask made in the given state returns the not-ready result.
AsksNotReady(chain, hist) ==
    \A q \in Questions, fault \in QueryFaults, answer \in Answers :
        query(chain, hist, q, fault, answer).kind = "NotReady"

\* C1: after reset (clear_history) the session is EMPTY: the vector store and
\* the RAG chain are discarded and the chat history is empty, so every ask
\* returns the not-ready result.
C1_ResetEmptiesSession ==
    last.op = "clear_history" =>
        /\ vector_store = None
        /\ rag_chain = None
        /\ chat_history = <<>>
        /\ AsksNotReady(rag_chain, chat_history)

\* C2: a successful ingest that replaces the indexed document by another one
\* leaves an empty chat history and the index and chain of the new document
\* only.
C2_ReplaceRetainsNothing ==
    [][(/\ IsCall("process_pdf")
        /\ last'.ingest = "Success"
        /\ rag_chain # None
        /\ rag_chain.store.doc # last'.doc)
       => (/\ chat_history' = <<>>
           /\ vector_store'.doc = last'.doc
           /\ rag_chain'.store = vector_store')]_vars

\* C3 as stated: after a failed ingestion, first or replacement, the session
\* is EMPTY: no chain is installed and every ask returns the not-ready
\* result.
C3_FailedIngestLeavesEmpty ==
    (last.op = "process_pdf" /\ last.ingest = "Error") =>
        (rag_chain = None /\ AsksNotReady(rag_chain, chat_history))

\* C3 as amended: process_pdf never raises; a fault in any stage it reaches
\* is returned as an error; a failed ingestion leaves the RAG chain and the
\* chat history as they were before the call, so after a failed first
\* ingestion every ask returns the not-ready result and after a failed
\* replacement the chain of the previous document is still installed.
C3_FailedIngestKeepsChain ==
    [][IsCall("process_pdf")
       => (/\ last'.ingest \in {"Success", "Error", "InvalidFormat"}
           /\ (last'.ext = "pdf" /\ last'.ifault # "none" => last'.ingest = "Error")
           /\ (last'.ingest # "Success"
               => (/\ rag_chain' = rag_chain
                   /\ chat_history' = chat_history
                   /\ (rag_chain = None => AsksNotReady(rag_chain', chat_history'))
                   /\ (rag_chain # None => ~AsksNotReady(rag_chain', chat_history')))))]_vars

\* C3 witness: a replacement ingestion has failed while a chain was installed.
C3_Witness ==
    /\ last.op = "process_pdf"
    /\ last.ingest = "Error"
    /\ rag_chain # None
    /\ rag_chain.store.doc # last.doc

\* C4: an ask made while no chain is installed returns the not-ready result,
\* does not invoke the pipeline and leaves the chat history unchanged, for
\* every question and every repetition.
C4_AskBeforeIngestNotReady ==
    [][(IsCall("query") /\ rag_chain = None)
       => (/\ last'.reply = "NotReady"
           /\ ~last'.invoked
           /\ chat_history' = chat_history)]_vars

\* C4 witness: a second ask in a row was answered not-ready.
C4_Witness ==
    /\ last.op = "query"
    /\ last.reply = "NotReady"
    /\ last.question = Str("q1")
    /\ ncalls >= 2
    /\ chat_history = <<>>

\* C5: a successful ask appends exactly the user's question and then the
\* returned answer; the history it hands to the pipeline is the history as it
\* stood; and no call other than a successful ask or clear_history changes
\* the history.
C5_HistoryAppendOnly ==
    [][/\ (IsCall("query") /\ last'.reply = "Answer")
          => (/\ chat_history' = chat_history \o
                    <<HumanMessage(last'.question.text), AIMessage(last'.answer)>>
              /\ last'.invoked
              /\ last'.passed = chat_history)
       /\ (~(IsCall("query") /\ last'.reply = "Answer") /\ ~IsCall("clear_history"))
          => chat_history' = chat_history]_vars

\* C5 witness: a second successful ask, made with the first one's two turns
\* as its history.
C5_Witness ==
    /\ last.op = "query"
    /\ last.reply = "Answer"
    /\ Len(last.passed) = 2
    /\ Len(chat_history) = 4

\* C6: an ask whose reformulation call fails still returns a composed answer.
C6_ReformulationFallback ==
    (/\ last.op = "query"
     /\ last.invoked
     /\ last.passed # <<>>
     /\ last.qfault = "reformulate")
    => last.reply = "Answer"

\* C7: ingesting the empty document while nothing is indexed returns a
\* failure, installs neither a store nor a chain, and every following ask
\* returns the not-ready result.
C7_EmptyDocumentFails ==
    [][(/\ IsCall("process_pdf")
        /\ split_documents(last'.doc) = 0
        /\ vector_store = None
        /\ rag_chain = None)
       => (/\ last'.ingest \in {"Error", "InvalidFormat"}
           /\ vector_store' = None
           /\ rag_chain' = None
           /\ AsksNotReady(rag_chain', chat_history'))]_vars

\* C7 witness: the empty document was ingested with every service working,
\* and the ingestion failed.
C7_Witness ==
    /\ last.op = "process_pdf"
    /\ last.ext = "pdf"
    /\ split_documents(last.doc) = 0
    /\ last.ifault = "none"
    /\ last.ingest = "Error"
    /\ vector_store = None
    /\ rag_chain = None

\* C8: with a chain installed, an invalid question is answered "Invalid" and
\* a failing pipeline stage "Error"; an ask that does not return an answer
\* returns one of these two messages and leaves the chat history, the vector
\* store and the chain unchanged.
C8_FailedAskKeepsState ==
    [][(IsCall("query") /\ rag_chain # None)
       => (/\ last'.reply \in {"Answer", "Error", "Invalid"}
           /\ (last'.question.text = "" \/ ~last'.question.isstr
               => last'.reply = "Invalid")
           /\ (last'.invoked /\ last'.qfault \in {"retrieve", "compose"}
               => last'.reply = "Error")
           /\ (last'.reply # "Answer"
               => (/\ chat_history' = chat_history
                   /\ vector_store' = vector_store
                   /\ rag_chain' = rag_chain)))]_vars

\* C8 witness: an ask failed in the pipeline with a chain installed and
\* earlier turns in the history.
C8_Witness ==
    /\ last.op = "query"
    /\ last.reply = "Error"
    /\ last.qfault = "compose"
    /\ rag_chain # None
    /\ Len(chat_history) = 2

\* C9: between script runs no temporary PDF file remains and at most one
\* index directory exists.
C9_TempStorageReleased == tmp_files = 0 /\ tmp_dirs <= 1

\* C10: whenever pdf_processed is set a chain and a store are installed, a
\* chain is never installed without a store, and no question asked through
\* the chat interface gets the not-ready result.
C10_ProcessedImpliesReady ==
    /\ pdf_processed => (rag_chain # None /\ vector_store # None)
    /\ rag_chain # None => vector_store # None
    /\ last.reply # "NotReady"

\* C10 witness: with a document loaded, a run retried a failing upload and
\* then answered the question from the chain installed earlier.
C10_Witness ==
    /\ pdf_processed
    /\ last.ingest = "Error"
    /\ last.reply = "Answer"
    /\ rag_chain # None

====
